---- MODULE Spec2Model ----
(***************************************************************************)
(* The analytics pipeline of the Wandur dashboard: the Record Source       *)
(* (Airtable tables), the Data Access Layer (AirtableClient), the          *)
(* Aggregation Engine (AnalyticsProcessor) and the Recommendation Selector *)
(* (RecommendationEngine).                                                 *)
(*                                                                         *)
(* Representation choices:                                                 *)
(*  - an ISO date string 'YYYY-MM-DD' is a day ordinal (a natural > 0);    *)
(*    the order of the ordinals is the lexicographic order of the strings; *)
(*    the empty string '' (default of a missing Date) is NoDate = 0;       *)
(*  - a time string is a sequence of one-character strings, so that        *)
(*    split(':') and int() are computed character by character;           *)
(*  - a Python float is an exact rational [n, d] in lowest terms;          *)
(*  - a dict or an Airtable 'fields' mapping is a function whose domain    *)
(*    is the set of keys that are present;                                 *)
(*  - a pandas DataFrame is [columns |-> <<names>>, rows |-> <<dicts>>];   *)
(*  - the pseudo random generators are a stream Draw(seed, k, n) whose     *)
(*    seed is chosen anew, nondeterministically, by every call.            *)
(***************************************************************************)
EXTENDS Integers, Sequences, FiniteSets, TLC

\* ------------------------------------------------------------------ bounds
\* Total number of records the Record Source holds outside the Stores table.
MaxRecords == 2
\* The same, where the metrics and the recommendation rules are examined.
MaxRuleRecords == 3
\* Number of distinct random streams a call can draw from.
NumSeeds == 3

\* ------------------------------------------------------------- Python glue
None == "None"
\* an absent (None or '') date argument, and the '' of a missing Date field
NoDate == 0
\* an absent (None or '') store_id argument
NoStore == ""

\* dict.get(key, default)
Get(f, k, d) == IF k \in DOMAIN f THEN f[k] ELSE d

RECURSIVE GCD(_, _)
GCD(a, b) == IF b = 0 THEN a ELSE GCD(b, a % b)

\* the float n/d (d > 0, n >= 0), in lowest terms
Rat(n, d) == LET g == GCD(n, d) IN [n |-> n \div g, d |-> d \div g]

\* a < b on floats
RatLess(a, b) == a.n * b.d < b.n * a.d

RECURSIVE SumSeq(_)
SumSeq(s) == IF s = <<>> THEN 0 ELSE Head(s) + SumSeq(Tail(s))

Column(rows, c) == [i \in 1..Len(rows) |-> rows[i][c]]

Range(s) == {s[i] : i \in 1..Len(s)}

\* pandas Series.mean() of a non-empty numeric column
Mean(s) == Rat(SumSeq(s), Len(s))

\* ------------------------------------------------------------ random streams
Seeds == 0..(NumSeeds - 1)

\* the k-th draw (k = 0, 1, ...) of stream seed, reduced to 0..n-1
Draw(seed, k, n) == (seed + k * (seed + 1)) % n

\* random.randint(a, b): both ends included
RandInt(seed, k, a, b) == a + Draw(seed, k, b - a + 1)

\* numpy.random.randint(lo, hi): hi excluded
NpRandInt(seed, k, lo, hi) == lo + Draw(seed, k, hi - lo)

\* variant: numpy.random.uniform() in [0, 1), whatever lo and hi
NpUniform_Unit(seed, k, lo, hi) == Rat(Draw(seed, k, 1000), 1000)

\* numpy.random.uniform(lo, hi) in [lo, hi), lo and hi given in thousandths
NpUniform(seed, k, lo, hi) == Rat(lo + Draw(seed, k, hi - lo), 1000)

\* ------------------------------------------------------------- Record Source
Tables == {"Visitors", "Purchases", "CustomerSegments", "HeatmapData"}

\* datetime.now(), as a day ordinal
Today == 40

T0930 == <<"0", "9", ":", "3", "0">>
T1405 == <<"1", "4", ":", "0", "5">>
T2110 == <<"2", "1", ":", "1", "0">>

Without(f, k) == [x \in DOMAIN f \ {k} |-> f[x]]

VisitorBase ==
  [StoreID |-> "s1", Date |-> 38, Time |-> T0930, VisitorID |-> "V1",
   Duration |-> 12, Converted |-> TRUE]

PurchaseBase ==
  [StoreID |-> "s1", Date |-> 38, Time |-> T0930, VisitorID |-> "V1",
   Amount |-> 120, Items |-> 2]

SegmentBase ==
  [StoreID |-> "s1", Segment |-> "Regular", Count |-> 22, AvgSpend |-> 65]

HeatmapBase == [StoreID |-> "s1", Date |-> 40, X |-> 3, Y |-> 4, Density |-> 150]

\* ------------------------------------------------- Record Source operations
\* one clause "{Field} OP 'value'" of a filter formula
Clause(field, op, value) == [field |-> field, op |-> op, value |-> value]

NoFormula == [fn |-> None, parts |-> <<>>]

\* "AND(" + ",".join(formula_parts) + ")"
AndFormula(parts) == [fn |-> "AND", parts |-> parts]

ClauseHolds(c, fields) ==
  LET v == Get(fields, c.field, IF c.field = "Date" THEN NoDate ELSE "") IN
    CASE c.op = "=" -> v = c.value
      [] c.op = ">=" -> v >= c.value
      [] c.op = "<=" -> v <= c.value

\* Airtable.get_all(formula=...): the records of the table, in table order,
\* that satisfy every clause of the formula (all of them for formula=None)
GetAll(table, formula) ==
  SelectSeq(table, LAMBDA r : \A i \in 1..Len(formula.parts) :
                                 ClauseHolds(formula.parts[i], r.fields))

\* Airtable.get(record_id): <<the record>>, or <<>> for no record (None)
GetRecord(table, id) == SelectSeq(table, LAMBDA r : r.id = id)

RecordCount(d) == SumSeq([i \in 1..4 |->
  Len(d[<<"Visitors", "Purchases", "CustomerSegments", "HeatmapData">>[i]])])

\* the id the Record Source gives a new record: one no record of the table has
FreshId(table) ==
  CHOOSE n \in 1..(Len(table) + 1) : \A i \in 1..Len(table) : table[i].id # n

\* -------------------------------------------------------- Data Access Layer
\* pandas.DataFrame(columns=[...]): no row, the columns as given
EmptyFrame(columns) == [columns |-> Range(columns), rows |-> <<>>]

\* pandas.DataFrame(records): one row per dict, the columns are the dicts' keys
FrameOf(records) ==
  [columns |-> UNION {DOMAIN records[i] : i \in 1..Len(records)},
   rows |-> records]

DateFilterParts(store_id, start_date, end_date) ==
  (IF store_id # NoStore THEN <<Clause("StoreID", "=", store_id)>> ELSE <<>>)
  \o (IF start_date # NoDate THEN <<Clause("Date", ">=", start_date)>> ELSE <<>>)
  \o (IF end_date # NoDate THEN <<Clause("Date", "<=", end_date)>> ELSE <<>>)

\* variant: the conjunction is built even when no clause is present
DateFilter_AlwaysAnd(store_id, start_date, end_date) ==
  AndFormula(DateFilterParts(store_id, start_date, end_date))

DateFilter(store_id, start_date, end_date) ==
  LET formula_parts == DateFilterParts(store_id, start_date, end_date) IN
    IF formula_parts # <<>> THEN AndFormula(formula_parts) ELSE NoFormula

VisitorColumns ==
  <<"id", "store_id", "date", "time", "visitor_id", "duration", "converted">>

VisitorRow(visitor) ==
  [id |-> visitor.id,
   store_id |-> Get(visitor.fields, "StoreID", ""),
   date |-> Get(visitor.fields, "Date", NoDate),
   time |-> Get(visitor.fields, "Time", <<>>),
   visitor_id |-> Get(visitor.fields, "VisitorID", ""),
   duration |-> Get(visitor.fields, "Duration", 0),
   converted |-> Get(visitor.fields, "Converted", FALSE)]

get_visitors_data(d, store_id, start_date, end_date) ==
  LET visitors == GetAll(d["Visitors"], DateFilter(store_id, start_date, end_date))
      records == [i \in 1..Len(visitors) |-> VisitorRow(visitors[i])]
  IN IF records = <<>> THEN EmptyFrame(VisitorColumns)
     ELSE FrameOf(records)

\* variant: the empty purchase table lacks the items column
PurchaseColumns_NoItems ==
  <<"id", "store_id", "date", "time", "visitor_id", "amount">>

PurchaseColumns ==
  <<"id", "store_id", "date", "time", "visitor_id", "amount", "items">>

PurchaseRow(purchase) ==
  [id |-> purchase.id,
   store_id |-> Get(purchase.fields, "StoreID", ""),
   date |-> Get(purchase.fields, "Date", NoDate),
   time |-> Get(purchase.fields, "Time", <<>>),
   visitor_id |-> Get(purchase.fields, "VisitorID", ""),
   amount |-> Get(purchase.fields, "Amount", 0),
   items |-> Get(purchase.fields, "Items", 0)]

get_purchases_data(d, store_id, start_date, end_date) ==
  LET purchases == GetAll(d["Purchases"], DateFilter(store_id, start_date, end_date))
      records == [i \in 1..Len(purchases) |-> PurchaseRow(purchases[i])]
  IN IF records = <<>> THEN EmptyFrame(PurchaseColumns)
     ELSE FrameOf(records)

SegmentRow(segment) ==
  [id |-> segment.id,
   store_id |-> Get(segment.fields, "StoreID", ""),
   segment |-> Get(segment.fields, "Segment", ""),
   count |-> Get(segment.fields, "Count", 0),
   avg_spend |-> Get(segment.fields, "AvgSpend", 0)]

\* variant: every count at the excluded upper end of its range
DummySegments_UpperEnds ==
  FrameOf(<<[segment |-> "First-time", count |-> 50],
            [segment |-> "Occasional", count |-> 60],
            [segment |-> "Regular", count |-> 40],
            [segment |-> "Loyal", count |-> 20]>>)

\* the dummy rows returned when no segment record matches
DummySegments ==
  FrameOf(<<[segment |-> "First-time", count |-> 35],
            [segment |-> "Occasional", count |-> 45],
            [segment |-> "Regular", count |-> 20],
            [segment |-> "Loyal", count |-> 10]>>)

dal_get_customer_segments(d, store_id) ==
  LET formula == IF store_id # NoStore
                 THEN [fn |-> "CLAUSE", parts |-> <<Clause("StoreID", "=", store_id)>>]
                 ELSE NoFormula
      segments == GetAll(d["CustomerSegments"], formula)
      records == [i \in 1..Len(segments) |-> SegmentRow(segments[i])]
  IN IF records = <<>> THEN DummySegments
     ELSE FrameOf(records)

GridSize == 10

\* variant: the coordinate wraps around the grid
Clamp_Wrapping(v) == v % 10

\* min(max(int(v), 0), 9)
Clamp(v) == IF v < 0 THEN 0 ELSE IF v > 9 THEN 9 ELSE v

\* variant: numpy.random.randn(10, 10), values centred on 0
RandomDensity_Centred(seed) ==
  [y \in 1..10 |-> [x \in 1..10 |->
     Draw(seed, (y - 1) * 10 + (x - 1), 100) - 50]]

\* numpy.random.rand(10, 10) with its two hotspots, in hundredths
RandomDensity(seed) ==
  [y \in 1..GridSize |-> [x \in 1..GridSize |->
     LET u == Draw(seed, (y - 1) * GridSize + (x - 1), 100) IN
       IF y - 1 \in 2..3 /\ x - 1 \in 2..3 THEN u * 3
       ELSE IF y - 1 \in 7..8 /\ x - 1 \in 7..8 THEN u * 2
       ELSE u]]

RECURSIVE FillDensity(_, _)
FillDensity(density, heatmap_records) ==
  IF heatmap_records = <<>> THEN density
  ELSE LET record == Head(heatmap_records)
           x == Clamp(Get(record.fields, "X", 0))
           y == Clamp(Get(record.fields, "Y", 0))
           value == Get(record.fields, "Density", 0)
       IN FillDensity([density EXCEPT ![y + 1][x + 1] = value],
                      Tail(heatmap_records))

dal_get_heatmap_data(d, store_id, date, seed) ==
  LET formula_parts ==
        <<Clause("StoreID", "=", store_id)>>
        \o (IF date # NoDate THEN <<Clause("Date", "=", date)>> ELSE <<>>)
      heatmap_records == GetAll(d["HeatmapData"], AndFormula(formula_parts))
  IN IF heatmap_records = <<>> THEN [density |-> RandomDensity(seed)]
     ELSE [density |->
             FillDensity([y \in 1..GridSize |-> [x \in 1..GridSize |-> 0]],
                         heatmap_records)]

\* ------------------------------------------------------- Aggregation Engine
\* what a call gives back: a returned dict, DataFrame or list, or an exception
Dict(v) == [kind |-> "dict", value |-> v]
Frame(v) == [kind |-> "DataFrame", value |-> v]
List(v) == [kind |-> "list", value |-> v]
Raised(exc) == [kind |-> "raise", value |-> exc]

\* pandas.DataFrame({name: list, ...}): the columns are the keys
FrameOfLists(lists) ==
  LET n == Len(lists[CHOOSE c \in DOMAIN lists : TRUE]) IN
    [columns |-> DOMAIN lists,
     rows |-> [i \in 1..n |-> [c \in DOMAIN lists |-> lists[c][i]]]]

RECURSIVE SortedSeq(_)
SortedSeq(S) ==
  IF S = {} THEN <<>>
  ELSE LET m == CHOOSE x \in S : \A y \in S : x <= y
       IN <<m>> \o SortedSeq(S \ {m})

\* variant: the real-data branch is never selected
HasRows_Never(df) == FALSE

\* len(df) > 0: the test that selects the real-data branch
HasRows(df) == Len(df.rows) > 0

\* variant: a fraction instead of a percentage
ConversionRate_Fraction(conversion_count, foot_traffic) ==
  Rat(conversion_count, foot_traffic)

\* (conversion_count / foot_traffic) * 100
ConversionRate(conversion_count, foot_traffic) ==
  Rat(conversion_count * 100, foot_traffic)

\* the number of rows whose column c holds v
CountOf(rows, c, v) == Len(SelectSeq(rows, LAMBDA r : r[c] = v))

\* variant: the trailing week
WindowStart_Week(start_date) ==
  IF start_date = NoDate THEN Today - 7 ELSE start_date

\* the date window of get_key_metrics
WindowStart(start_date) ==
  IF start_date = NoDate THEN Today - 30 ELSE start_date

WindowEnd(start_date, end_date) ==
  IF start_date = NoDate THEN Today
  ELSE IF end_date = NoDate THEN Today ELSE end_date

\* variant: the fallback keeps the mean of the purchases that exist
get_key_metrics_KeepsMean(d, store_id, start_date, end_date, seed) ==
  LET visitors_df == get_visitors_data(d, store_id, WindowStart(start_date),
                                       WindowEnd(start_date, end_date))
      purchases_df == get_purchases_data(d, store_id, WindowStart(start_date),
                                         WindowEnd(start_date, end_date))
      foot_traffic == Len(visitors_df.rows)
      conversion_count == CountOf(visitors_df.rows, "converted", TRUE)
      conversion_rate == IF foot_traffic > 0
                         THEN ConversionRate(conversion_count, foot_traffic)
                         ELSE Rat(0, 1)
      avg_purchase == IF Len(purchases_df.rows) > 0
                      THEN Mean(Column(purchases_df.rows, "amount"))
                      ELSE Rat(0, 1)
  IN IF foot_traffic = 0
     THEN Dict([foot_traffic |-> NpRandInt(seed, 0, 500, 1500),
                conversion_rate |-> NpUniform(seed, 1, 15000, 30000),
                avg_purchase |-> IF Len(purchases_df.rows) > 0 THEN avg_purchase
                                 ELSE NpUniform(seed, 2, 40000, 80000)])
     ELSE Dict([foot_traffic |-> foot_traffic,
                conversion_rate |-> conversion_rate,
                avg_purchase |-> avg_purchase])

\* AnalyticsProcessor.get_key_metrics
get_key_metrics(d, store_id, start_date, end_date, seed) ==
  LET visitors_df == get_visitors_data(d, store_id, WindowStart(start_date),
                                       WindowEnd(start_date, end_date))
      purchases_df == get_purchases_data(d, store_id, WindowStart(start_date),
                                         WindowEnd(start_date, end_date))
      foot_traffic == Len(visitors_df.rows)
      conversion_count == CountOf(visitors_df.rows, "converted", TRUE)
      conversion_rate == IF foot_traffic > 0
                         THEN ConversionRate(conversion_count, foot_traffic)
                         ELSE Rat(0, 1)
      avg_purchase == IF Len(purchases_df.rows) > 0
                      THEN Mean(Column(purchases_df.rows, "amount"))
                      ELSE Rat(0, 1)
  IN IF foot_traffic = 0
     THEN Dict([foot_traffic |-> NpRandInt(seed, 0, 500, 1500),
                conversion_rate |-> NpUniform(seed, 1, 15000, 30000),
                avg_purchase |-> NpUniform(seed, 2, 40000, 80000)])
     ELSE Dict([foot_traffic |-> foot_traffic,
                conversion_rate |-> conversion_rate,
                avg_purchase |-> avg_purchase])

\* variant: the week starts a day late
Weekday_Shifted(date) == (date + 1) % 7

\* datetime.weekday(): 0 is Monday, 5 and 6 are Saturday and Sunday
Weekday(date) == date % 7

\* variant: the real-data branch reindexes over the requested range and fills
\* the dates without a visit with 0
get_traffic_data_ZeroFilled(d, store_id, start_date, end_date, seed) ==
  LET visitors_df == get_visitors_data(d, store_id, start_date, end_date)
      n == IF start_date = NoDate \/ end_date = NoDate \/ start_date > end_date
           THEN 0 ELSE end_date - start_date + 1
      date_range == [i \in 1..n |-> start_date + (i - 1)]
  IN IF HasRows(visitors_df)
     THEN Frame(FrameOf([i \in 1..n |->
            [date |-> date_range[i],
             visitors |-> CountOf(visitors_df.rows, "date", date_range[i])]]))
     ELSE IF start_date = NoDate \/ end_date = NoDate
     THEN Raised("TypeError")
     ELSE LET visitors == [i \in 1..n |->
                LET weekend == Weekday(date_range[i]) >= 5
                    random_factor == 800 + Draw(seed, i - 1, 400)
                IN ((IF weekend THEN 75 ELSE 50) * random_factor) \div 1000]
          IN Frame(FrameOfLists([date |-> date_range, visitors |-> visitors]))

\* AnalyticsProcessor.get_traffic_data: visitor rows grouped and counted by
\* date, or one synthetic count per calendar date of the range

get_traffic_data(d, store_id, start_date, end_date, seed) ==
  LET visitors_df == get_visitors_data(d, store_id, start_date, end_date)
      dates == SortedSeq(Range(Column(visitors_df.rows, "date")))
  IN IF HasRows(visitors_df)
     THEN Frame(FrameOf([i \in 1..Len(dates) |->
            [date |-> dates[i],
             visitors |-> CountOf(visitors_df.rows, "date", dates[i])]]))
     ELSE IF start_date = NoDate \/ end_date = NoDate
     THEN Raised("TypeError")
     ELSE LET n == IF start_date <= end_date THEN end_date - start_date + 1 ELSE 0
              date_range == [i \in 1..n |-> start_date + (i - 1)]
              visitors == [i \in 1..n |->
                LET weekend == Weekday(date_range[i]) >= 5
                    random_factor == 800 + Draw(seed, i - 1, 400)
                IN ((IF weekend THEN 75 ELSE 50) * random_factor) \div 1000]
          IN Frame(FrameOfLists([date |-> date_range, visitors |-> visitors]))

get_customer_segments(d, store_id, seed) ==
  LET segments_df == dal_get_customer_segments(d, store_id) IN
    IF HasRows(segments_df) /\ "segment" \in segments_df.columns
    THEN Frame(segments_df)
    ELSE Frame(FrameOf(
           <<[segment |-> "First-time", count |-> NpRandInt(seed, 0, 30, 50)],
             [segment |-> "Occasional", count |-> NpRandInt(seed, 1, 40, 60)],
             [segment |-> "Regular", count |-> NpRandInt(seed, 2, 20, 40)],
             [segment |-> "Loyal", count |-> NpRandInt(seed, 3, 10, 20)]>>))

get_heatmap_data(d, store_id, start_date, end_date, seed) ==
  LET date == IF end_date # NoDate THEN end_date ELSE Today IN
    Dict(dal_get_heatmap_data(d, store_id, date, seed))

\* variant: a stay of five minutes counts as engaged
Engaged_FromFive(r) == r.duration >= 5

\* visitors_df['duration'] > 5
Engaged(r) == r.duration > 5

\* variant: the count divided by the share
Portion_Divided(count, permille) == (count * 1000) \div permille

\* int(count * np.random.uniform(...)), the factor in thousandths
Portion(count, permille) == (count * permille) \div 1000

\* AnalyticsProcessor.get_conversion_data: the four stages of the funnel,
\* counted from the visitor and purchase rows or synthetic
get_conversion_data(d, store_id, start_date, end_date, seed) ==
  LET visitors_df == get_visitors_data(d, store_id, start_date, end_date)
      purchases_df == get_purchases_data(d, store_id, start_date, end_date)
      ids == Column(purchases_df.rows, "visitor_id")
      real == HasRows(visitors_df)
      mock_total == NpRandInt(seed, 0, 800, 1200)
      mock_engaged == Portion(mock_total, 400 + Draw(seed, 1, 200))
      mock_converted == Portion(mock_engaged, 200 + Draw(seed, 2, 200))
      mock_repeat == Portion(mock_converted, 100 + Draw(seed, 3, 200))
      total_visitors == IF real THEN Len(visitors_df.rows) ELSE mock_total
      engaged_visitors ==
        IF real THEN Len(SelectSeq(visitors_df.rows, Engaged))
        ELSE mock_engaged
      converted_visitors ==
        IF real THEN CountOf(visitors_df.rows, "converted", TRUE)
        ELSE mock_converted
      repeat_customers ==
        IF real
        THEN IF Len(purchases_df.rows) > 0
             THEN Cardinality({v \in Range(ids) :
                    CountOf(purchases_df.rows, "visitor_id", v) > 1})
             ELSE 0
        ELSE mock_repeat
  IN Frame(FrameOf(
       <<[stage |-> "Total Visitors", count |-> total_visitors],
         [stage |-> "Engaged", count |-> engaged_visitors],
         [stage |-> "Converted", count |-> converted_visitors],
         [stage |-> "Repeat Customers", count |-> repeat_customers]>>))

Digits == <<"0", "1", "2", "3", "4", "5", "6", "7", "8", "9">>

\* variant: x.split(':')[1], the minutes
SplitHead_Minutes(x) ==
  LET colons == {i \in 1..Len(x) : x[i] = ":"} IN
    IF colons = {} THEN x
    ELSE SubSeq(x, (CHOOSE i \in colons : \A j \in colons : i <= j) + 1, Len(x))

\* x.split(':')[0]
SplitHead(x) ==
  LET colons == {i \in 1..Len(x) : x[i] = ":"} IN
    IF colons = {} THEN x
    ELSE SubSeq(x, 1, (CHOOSE i \in colons : \A j \in colons : i <= j) - 1)

\* int(s) succeeds on a non-empty string of digits and raises ValueError on ''
IntParses(s) == s # <<>> /\ \A i \in 1..Len(s) : s[i] \in Range(Digits)

RECURSIVE IntOf(_)
IntOf(s) ==
  IF s = <<>> THEN 0
  ELSE IntOf(SubSeq(s, 1, Len(s) - 1)) * 10
       + (CHOOSE v \in 0..9 : Digits[v + 1] = s[Len(s)])

\* variant: range(9, 20)
Hours_Until19 == [i \in 1..11 |-> 8 + i]

\* range(9, 21)
Hours == [i \in 1..12 |-> 8 + i]

PeakBase(hour) ==
  IF hour < 12 THEN 30 + (hour - 9) * 10
  ELSE IF hour = 12 \/ hour = 13 THEN 80
  ELSE IF hour < 17 THEN 50
  ELSE 70

get_peak_hours(d, store_id, start_date, end_date, seed) ==
  LET visitors_df == get_visitors_data(d, store_id, start_date, end_date)
      rows == visitors_df.rows
  IN IF HasRows(visitors_df) /\ "time" \in visitors_df.columns
     THEN IF \E i \in 1..Len(rows) : ~IntParses(SplitHead(rows[i].time))
          THEN Raised("ValueError")
          ELSE LET hour == [i \in 1..Len(rows) |-> IntOf(SplitHead(rows[i].time))]
               IN Frame(FrameOf([i \in 1..Len(Hours) |->
                    [hour |-> Hours[i],
                     visitors |-> Cardinality({j \in 1..Len(rows) :
                                                 hour[j] = Hours[i]})]]))
     ELSE Frame(FrameOfLists(
            [hour |-> Hours,
             visitors |-> [i \in 1..Len(Hours) |->
               (PeakBase(Hours[i]) * (800 + Draw(seed, i - 1, 400))) \div 1000]]))

DwellBins == <<0, 5, 15, 30, 60>>

DwellLabels == <<"< 5 min", "5-15 min", "15-30 min", "30-60 min", "> 60 min">>

\* pandas.cut(bins=[0, 5, 15, 30, 60, inf]): intervals closed on the right,
\* (0,5], (5,15], (15,30], (30,60], (60,inf]; 0 stands for NaN (no interval)
Cut(duration) ==
  IF duration <= DwellBins[1] THEN 0
  ELSE CHOOSE i \in 1..5 :
         /\ DwellBins[i] < duration
         /\ (i = 5 \/ duration <= DwellBins[i + 1])

get_dwell_time_distribution(d, store_id, start_date, end_date, seed) ==
  LET visitors_df == get_visitors_data(d, store_id, start_date, end_date)
      rows == visitors_df.rows
  IN IF HasRows(visitors_df) /\ "duration" \in visitors_df.columns
     THEN Frame(FrameOf([i \in 1..5 |->
            [duration_category |-> DwellLabels[i],
             count |-> Cardinality({j \in 1..Len(rows) :
                                      Cut(rows[j].duration) = i})]]))
     ELSE Frame(FrameOfLists(
            [duration |-> DwellLabels,
             count |-> <<NpRandInt(seed, 0, 50, 100),
                         NpRandInt(seed, 1, 80, 150),
                         NpRandInt(seed, 2, 40, 90),
                         NpRandInt(seed, 3, 20, 50),
                         NpRandInt(seed, 4, 5, 20)>>]))

\* -------------------------------------------------- Recommendation Selector
\* the catalog: <<title, category, whether the description names the store>>
Templates ==
  <<<<"Optimize Store Layout", "engagement", TRUE>>,
    <<"Interactive Product Displays", "engagement", FALSE>>,
    <<"Staff Engagement Training", "engagement", TRUE>>,
    <<"Optimize Checkout Process", "conversion", TRUE>>,
    <<"Strategic Product Placement", "conversion", TRUE>>,
    <<"Limited-Time Offers", "conversion", FALSE>>,
    <<"Bundle Popular Items", "upsell", FALSE>>,
    <<"Premium Product Spotlight", "upsell", TRUE>>,
    <<"Staff Upselling Training", "upsell", TRUE>>,
    <<"Launch Loyalty Program", "loyalty", TRUE>>,
    <<"Personalized Offers", "loyalty", FALSE>>,
    <<"Social Media Showcase", "marketing", TRUE>>,
    <<"In-Mall Advertising", "marketing", TRUE>>,
    <<"Targeted Geofenced Ads", "marketing", TRUE>>,
    <<"Adjust Staffing Levels", "operations", TRUE>>,
    <<"Optimize Opening Hours", "operations", TRUE>>>>

\* variant: a catalog of the first nine items, three categories in all
_get_potential_recommendations_ThreeCategories(store_name) ==
  [i \in 1..9 |->
     [title |-> Templates[i][1],
      description |-> [template |-> i,
                       store_name |-> IF Templates[i][3] THEN store_name ELSE ""],
      category |-> Templates[i][2]]]

_get_potential_recommendations(store_name) ==
  [i \in 1..Len(Templates) |->
     [title |-> Templates[i][1],
      description |-> [template |-> i,
                       store_name |-> IF Templates[i][3] THEN store_name ELSE ""],
      category |-> Templates[i][2]]]

\* random.choice(seq), the k-th draw of the stream
Choice(seq, seed, k) == seq[1 + Draw(seed, k, Len(seq))]

\* variant: the category is ignored
_get_recommendation_by_category_Any(recommendations, category, seed, k) ==
  Choice(recommendations, seed, k)

_get_recommendation_by_category(recommendations, category, seed, k) ==
  LET category_recommendations ==
        SelectSeq(recommendations, LAMBDA r : r.category = category)
  IN IF category_recommendations # <<>>
     THEN Choice(category_recommendations, seed, k)
     ELSE Choice(recommendations, seed, k)

\* variant: a drawn element stays in the pool
RECURSIVE Sample_Replacing(_, _, _, _, _)
Sample_Replacing(pool, size, count, seed, k) ==
  IF count = 0 THEN <<>>
  ELSE LET j == 1 + Draw(seed, k, size) IN
         <<pool[j]>> \o Sample_Replacing(pool, size - 1, count - 1, seed, k + 1)

\* random.sample(population, count): count draws from a shrinking pool, the
\* hole of a drawn element being filled by the pool's last element
RECURSIVE Sample(_, _, _, _, _)
Sample(pool, size, count, seed, k) ==
  IF count = 0 THEN <<>>
  ELSE LET j == 1 + Draw(seed, k, size) IN
         <<pool[j]>> \o Sample([pool EXCEPT ![j] = pool[size]], size - 1,
                               count - 1, seed, k + 1)

\* variant: the used categories are not excluded
RECURSIVE FillSlots_AnyCategory(_, _, _, _, _)
FillSlots_AnyCategory(selected, remaining_slots, potential, seed, k) ==
  IF remaining_slots <= 0 THEN selected
  ELSE FillSlots_AnyCategory(Append(selected, Choice(potential, seed, k)),
                             remaining_slots - 1, potential, seed, k + 1)

\* variant: the loop stops one slot early
RECURSIVE FillSlots_Short(_, _, _, _, _)
FillSlots_Short(selected, remaining_slots, potential, seed, k) ==
  IF remaining_slots <= 1 THEN selected
  ELSE LET used_categories == {selected[i].category : i \in 1..Len(selected)}
           available == SelectSeq(potential,
                                  LAMBDA r : r.category \notin used_categories)
       IN FillSlots_Short(Append(selected,
                                 IF available # <<>> THEN Choice(available, seed, k)
                                 ELSE Choice(potential, seed, k)),
                          remaining_slots - 1, potential, seed, k + 1)

\* the loop that fills the remaining slots
RECURSIVE FillSlots(_, _, _, _, _)
FillSlots(selected, remaining_slots, potential, seed, k) ==
  IF remaining_slots <= 0 THEN selected
  ELSE LET used_categories == {selected[i].category : i \in 1..Len(selected)}
           available == SelectSeq(potential,
                                  LAMBDA r : r.category \notin used_categories)
       IN FillSlots(Append(selected,
                           IF available # <<>> THEN Choice(available, seed, k)
                           ELSE Choice(potential, seed, k)),
                    remaining_slots - 1, potential, seed, k + 1)

\* the rule-based picks, in the order engagement, conversion, upsell
RulePicks(visitors_df, purchases_df, potential, seed, k) ==
  LET avg_dwell_time == Mean(Column(visitors_df.rows, "duration"))
      conversion_rate == ConversionRate(
                           CountOf(visitors_df.rows, "converted", TRUE),
                           Len(visitors_df.rows))
      avg_purchase == Mean(Column(purchases_df.rows, "amount"))
      p1 == IF RatLess(avg_dwell_time, Rat(10, 1))
            THEN <<_get_recommendation_by_category(potential, "engagement", seed, k)>>
            ELSE <<>>
      p2 == IF RatLess(conversion_rate, Rat(20, 1))
            THEN Append(p1, _get_recommendation_by_category(
                              potential, "conversion", seed, k + Len(p1)))
            ELSE p1
  IN IF RatLess(avg_purchase, Rat(50, 1))
     THEN Append(p2, _get_recommendation_by_category(
                       potential, "upsell", seed, k + Len(p2)))
     ELSE p2

\* rec['impact_score'] = random.randint(6, 10) for each selected dict in turn:
\* a dict selected twice is one object and keeps the score set last
WithImpactScores(selected, seed, k) ==
  [i \in 1..Len(selected) |->
     LET last == CHOOSE j \in i..Len(selected) :
                   /\ selected[j] = selected[i]
                   /\ \A m \in (j + 1)..Len(selected) : selected[m] # selected[i]
     IN [title |-> selected[i].title,
         description |-> selected[i].description,
         category |-> selected[i].category,
         impact_score |-> RandInt(seed, k + last - 1, 6, 10)]]

get_recommendations(d, store_id, seed) ==
  LET store == GetRecord(d["Stores"], store_id)
      store_name == IF store # <<>> THEN Get(store[1].fields, "Name", "your store")
                    ELSE "your store"
      visitors_df == get_visitors_data(d, store_id, Today - 30, Today)
      purchases_df == get_purchases_data(d, store_id, Today - 30, Today)
      potential_recommendations == _get_potential_recommendations(store_name)
      num_recommendations == RandInt(seed, 0, 3, 5)
      picks == RulePicks(visitors_df, purchases_df, potential_recommendations,
                         seed, 1)
      selected_recommendations ==
        IF HasRows(visitors_df) /\ HasRows(purchases_df)
        THEN FillSlots(picks, num_recommendations - Len(picks),
                       potential_recommendations, seed, 1 + Len(picks))
        ELSE Sample(potential_recommendations, Len(potential_recommendations),
                    num_recommendations, seed, 1)
  IN List(WithImpactScores(selected_recommendations, seed,
                           1 + num_recommendations))

\* ------------------------------------------------------- mock data generator
\* f"{n:02d}" of an n below 100
TwoDigits(n) == <<Digits[n \div 10 + 1], Digits[(n % 10) + 1]>>

\* str(n) of an n >= 0
RECURSIVE DecimalDigits(_)
DecimalDigits(n) ==
  IF n < 10 THEN <<Digits[n + 1]>>
  ELSE DecimalDigits(n \div 10) \o <<Digits[(n % 10) + 1]>>

\* random.uniform(lo, hi), lo and hi and the value in thousandths
Uniform(seed, k, lo, hi) == lo + Draw(seed, k, hi - lo + 1)

\* round(x, 2) of an x given in thousandths
Round2(x) == Rat((x + 5) \div 10, 100)

\* Airtable.insert on content d: the table gains a record with a new id
Inserted(d, table_name, fields) ==
  [d EXCEPT ![table_name] = Append(@, [id |-> FreshId(@), fields |-> fields])]

\* the create_record call as the Record Source sees it
Write(table_name, fields) ==
  [op |-> "insert", table |-> table_name, fields |-> fields]

\* variant: a purchase is recorded for every visit
VisitWrites_AlwaysPurchase(store_id, date_str, seed, k) ==
  LET hour == RandInt(seed, k, 9, 20)
      minute == RandInt(seed, k + 1, 0, 59)
      time_str == TwoDigits(hour) \o <<":">> \o TwoDigits(minute)
      duration == RandInt(seed, k + 2, 1, 60)
      converted == Draw(seed, k + 3, 5) = 0
      visitor_fields ==
        [StoreID |-> store_id, Date |-> date_str, Time |-> time_str,
         VisitorID |-> <<"V">> \o DecimalDigits(RandInt(seed, k + 4, 10000, 99999)),
         Duration |-> duration, Converted |-> converted]
      amount == Uniform(seed, k + 5, 10000, 200000)
      items == RandInt(seed, k + 6, 1, 5)
      purchase_fields ==
        [StoreID |-> store_id, Date |-> date_str, Time |-> time_str,
         VisitorID |-> visitor_fields.VisitorID,
         Amount |-> Round2(amount), Items |-> items]
  IN <<Write("Visitors", visitor_fields), Write("Purchases", purchase_fields)>>

\* one pass of the inner loop: the visitor record and, when the visit
\* converted (random.random() < 0.2), the purchase record of the same visitor
VisitWrites(store_id, date_str, seed, k) ==
  LET hour == RandInt(seed, k, 9, 20)
      minute == RandInt(seed, k + 1, 0, 59)
      time_str == TwoDigits(hour) \o <<":">> \o TwoDigits(minute)
      duration == RandInt(seed, k + 2, 1, 60)
      converted == Draw(seed, k + 3, 5) = 0
      visitor_fields ==
        [StoreID |-> store_id, Date |-> date_str, Time |-> time_str,
         VisitorID |-> <<"V">> \o DecimalDigits(RandInt(seed, k + 4, 10000, 99999)),
         Duration |-> duration, Converted |-> converted]
      amount == Uniform(seed, k + 5, 10000, 200000)
      items == RandInt(seed, k + 6, 1, 5)
      purchase_fields ==
        [StoreID |-> store_id, Date |-> date_str, Time |-> time_str,
         VisitorID |-> visitor_fields.VisitorID,
         Amount |-> Round2(amount), Items |-> items]
  IN IF converted
     THEN <<Write("Visitors", visitor_fields), Write("Purchases", purchase_fields)>>
     ELSE <<Write("Visitors", visitor_fields)>>

\* the concatenation of seqs[lo], ..., seqs[hi]
RECURSIVE Flatten(_, _, _)
Flatten(seqs, lo, hi) ==
  IF lo > hi THEN <<>>
  ELSE IF lo = hi THEN seqs[lo]
  ELSE LET mid == (lo + hi) \div 2
       IN Flatten(seqs, lo, mid) \o Flatten(seqs, mid + 1, hi)

\* the draws set aside for a day: one for num_visitors and seven for each of
\* at most 100 visits, the last two used only when the visit converted
DrawsOfDay == 701

\* for i in range(num_visitors), on the day that lies `day` days back
DayWrites(store_id, day, seed) ==
  LET num_visitors == RandInt(seed, day * DrawsOfDay, 20, 100)
      writes == [i \in 1..num_visitors |->
                   VisitWrites(store_id, Today - day, seed,
                               day * DrawsOfDay + 1 + 7 * (i - 1))]
  IN Flatten(writes, 1, num_visitors)

\* for day in range(days), from today backwards
VisitorWrites(store_id, days, seed) ==
  Flatten([n \in 1..days |-> DayWrites(store_id, n - 1, seed)], 1, days)

\* the four segment records, drawn after the visitor loop
SegmentWrites(store_id, seed, k) ==
  LET segment(name, i, lo, hi, spend_lo, spend_hi) ==
        Write("CustomerSegments",
              [StoreID |-> store_id, Segment |-> name,
               Count |-> RandInt(seed, k + 2 * i, lo, hi),
               AvgSpend |-> Round2(Uniform(seed, k + 2 * i + 1,
                                           spend_lo * 1000, spend_hi * 1000))])
  IN <<segment("First-time", 0, 30, 50, 20, 40),
       segment("Occasional", 1, 40, 60, 30, 60),
       segment("Regular", 2, 20, 30, 50, 80),
       segment("Loyal", 3, 5, 15, 70, 120)>>

\* one record per cell of the grid, row by row, dated today
HeatmapWrites(store_id, seed) ==
  [n \in 1..(GridSize * GridSize) |->
     LET y == (n - 1) \div GridSize
         x == (n - 1) % GridSize
     IN Write("HeatmapData",
              [StoreID |-> store_id, Date |-> Today, X |-> x, Y |-> y,
               Density |-> Rat(RandomDensity(seed)[y + 1][x + 1], 100)])]

\* AirtableClient.generate_mock_data: the success flag and the create_record
\* calls it makes, in order
generate_mock_data(d, store_id, days, seed) ==
  LET store == GetRecord(d["Stores"], store_id) IN
    IF store = <<>> THEN [value |-> FALSE, writes |-> <<>>]
    ELSE [value |-> TRUE,
          writes |-> VisitorWrites(store_id, days, seed)
                       \o SegmentWrites(store_id, seed, days * DrawsOfDay)
                       \o HeatmapWrites(store_id, seed)]

\* the i-th id that the Record Source gives out on a table, counted from its
\* present content
NthFreshId(table, i) ==
  LET used == {table[j].id : j \in 1..Len(table)} IN
    CHOOSE n \in 1..(Len(table) + i) :
      n \notin used /\ Cardinality((1..n) \ used) = i

\* the Record Source content after the writes, applied in order
Applied(d, writes) ==
  [t \in DOMAIN d |->
     LET new == SelectSeq(writes, LAMBDA w : w.table = t) IN
       d[t] \o [i \in 1..Len(new) |->
                  [id |-> NthFreshId(d[t], i), fields |-> new[i].fields]]]

VARIABLES
  db,      \* the Record Source: table name -> sequence of [id, fields]
  call,    \* the last call made since the Record Source last changed
  result,  \* what that call returned or raised
  sent     \* the requests that call sent to the Record Source, in order

vars == <<db, call, result, sent>>

NoCall == [fn |-> None]
NoResult == [kind |-> None]

Init ==
  /\ db = [t \in Tables \cup {"Stores"} |->
             IF t = "Stores"
             THEN <<[id |-> "s1", fields |-> [Name |-> "Corner Boutique"]]>>
             ELSE <<>>]
  /\ call = NoCall
  /\ result = NoResult
  /\ sent = <<>>

\* ------------------------------------------------------ pass-through writes
Changed(d) ==
  /\ db' = d
  /\ call' = NoCall
  /\ result' = NoResult
  /\ sent' = <<>>

\* AirtableClient.create_record: Airtable.insert appends a record with a new id
CreateRecord(table_name, fields) == Changed(Inserted(db, table_name, fields))

\* AirtableClient.update_record: Airtable.update overwrites the given fields of
\* an existing record and keeps the others
UpdateRecord(table_name, record_id, fields) ==
  /\ \E i \in 1..Len(db[table_name]) : db[table_name][i].id = record_id
  /\ Changed([db EXCEPT ![table_name] =
       [i \in 1..Len(@) |->
          IF @[i].id = record_id
          THEN [id |-> record_id,
                fields |-> [k \in DOMAIN @[i].fields \cup DOMAIN fields |->
                              IF k \in DOMAIN fields THEN fields[k]
                              ELSE @[i].fields[k]]]
          ELSE @[i]]])

\* AirtableClient.delete_record
DeleteRecord(table_name, record_id) ==
  /\ \E i \in 1..Len(db[table_name]) : db[table_name][i].id = record_id
  /\ Changed([db EXCEPT ![table_name] = SelectSeq(@, LAMBDA r : r.id # record_id)])

\* --------------------------------------------------------------------- calls
Args(fn, store_id, start_date, end_date) ==
  [fn |-> fn, store_id |-> store_id, start_date |-> start_date,
   end_date |-> end_date]

\* Airtable.get_all(formula=...) on a table
Fetch(table_name, formula) ==
  [op |-> "get_all", table |-> table_name, formula |-> formula]

\* Airtable.get(record_id) on the Stores table
FetchStore(store_id) ==
  [op |-> "get", table |-> "Stores",
   formula |-> [fn |-> "id", parts |-> <<Clause("id", "=", store_id)>>]]

\* the requests the Data Access Layer sends while the call c runs
Requests(c) ==
  LET windowed(table_name) ==
        Fetch(table_name, DateFilter(c.store_id, WindowStart(c.start_date),
                                     WindowEnd(c.start_date, c.end_date)))
      dated(table_name) ==
        Fetch(table_name, DateFilter(c.store_id, c.start_date, c.end_date))
      recent(table_name) ==
        Fetch(table_name, DateFilter(c.store_id, Today - 30, Today))
  IN CASE c.fn = "get_key_metrics" -> <<windowed("Visitors"), windowed("Purchases")>>
       [] c.fn \in {"get_traffic_data", "get_peak_hours",
                    "get_dwell_time_distribution", "get_visitors_data"} ->
            <<dated("Visitors")>>
       [] c.fn = "get_purchases_data" -> <<dated("Purchases")>>
       [] c.fn = "get_conversion_data" -> <<dated("Visitors"), dated("Purchases")>>
       [] c.fn \in {"get_customer_segments", "airtable.get_customer_segments"} ->
            <<Fetch("CustomerSegments",
                    IF c.store_id # NoStore
                    THEN [fn |-> "CLAUSE",
                          parts |-> <<Clause("StoreID", "=", c.store_id)>>]
                    ELSE NoFormula)>>
       [] c.fn = "get_heatmap_data" ->
            <<Fetch("HeatmapData", AndFormula(
                <<Clause("StoreID", "=", c.store_id),
                  Clause("Date", "=",
                         IF c.end_date # NoDate THEN c.end_date ELSE Today)>>))>>
       [] c.fn = "get_recommendations" ->
            <<FetchStore(c.store_id), recent("Visitors"), recent("Purchases")>>

\* variant: the result of the previous call of the same function is kept
Returns_Memoized(c, r) ==
  /\ call' = c
  /\ result' = IF call.fn = c.fn THEN result ELSE r
  /\ sent' = IF call.fn = c.fn THEN <<>> ELSE Requests(c)
  /\ UNCHANGED db

\* variant: the call consumes the visits it has read
Returns_Consuming(c, r) ==
  /\ call' = c
  /\ result' = r
  /\ sent' = Requests(c) \o <<[op |-> "delete", table |-> "Visitors",
                                formula |-> NoFormula]>>
  /\ db' = [db EXCEPT !["Visitors"] = <<>>]

Returns(c, r) ==
  /\ call' = c
  /\ result' = r
  /\ sent' = Requests(c)
  /\ UNCHANGED db

KeyMetricsCall(store_id, start_date, end_date, seed) ==
  Returns(Args("get_key_metrics", store_id, start_date, end_date),
          get_key_metrics(db, store_id, start_date, end_date, seed))

TrafficCall(store_id, start_date, end_date, seed) ==
  Returns(Args("get_traffic_data", store_id, start_date, end_date),
          get_traffic_data(db, store_id, start_date, end_date, seed))

SegmentsCall(store_id, seed) ==
  Returns(Args("get_customer_segments", store_id, NoDate, NoDate),
          get_customer_segments(db, store_id, seed))

HeatmapCall(store_id, start_date, end_date, seed) ==
  Returns(Args("get_heatmap_data", store_id, start_date, end_date),
          get_heatmap_data(db, store_id, start_date, end_date, seed))

ConversionCall(store_id, start_date, end_date, seed) ==
  Returns(Args("get_conversion_data", store_id, start_date, end_date),
          get_conversion_data(db, store_id, start_date, end_date, seed))

PeakHoursCall(store_id, start_date, end_date, seed) ==
  Returns(Args("get_peak_hours", store_id, start_date, end_date),
          get_peak_hours(db, store_id, start_date, end_date, seed))

DwellTimeCall(store_id, start_date, end_date, seed) ==
  Returns(Args("get_dwell_time_distribution", store_id, start_date, end_date),
          get_dwell_time_distribution(db, store_id, start_date, end_date, seed))

RecommendationsCall(store_id, seed) ==
  Returns(Args("get_recommendations", store_id, NoDate, NoDate),
          get_recommendations(db, store_id, seed))

VisitorsDataCall(store_id, start_date, end_date) ==
  Returns(Args("get_visitors_data", store_id, start_date, end_date),
          Frame(get_visitors_data(db, store_id, start_date, end_date)))

PurchasesDataCall(store_id, start_date, end_date) ==
  Returns(Args("get_purchases_data", store_id, start_date, end_date),
          Frame(get_purchases_data(db, store_id, start_date, end_date)))

SegmentsDataCall(store_id) ==
  Returns(Args("airtable.get_customer_segments", store_id, NoDate, NoDate),
          Frame(dal_get_customer_segments(db, store_id)))

\* AirtableClient.generate_mock_data, run at most once on a Record Source:
\* every record it creates is in the Record Source when it returns
GenerateMockDataCall(store_id, days, seed) ==
  LET outcome == generate_mock_data(db, store_id, days, seed) IN
    /\ Len(db["HeatmapData"]) < GridSize * GridSize
    /\ db' = Applied(db, outcome.writes)
    /\ call' = [fn |-> "generate_mock_data", store_id |-> store_id, days |-> days]
    /\ result' = [kind |-> "bool", value |-> outcome.value]
    /\ sent' = <<FetchStore(store_id)>> \o outcome.writes

\* ------------------------------------------------------------ specifications
\* <<store_id, start_date, end_date>> with both dates given: the trailing 30
\* days of the store, one later day of it, and a store without any record
DatedArgs == {<<"s1", Today - 30, Today>>, <<"s1", 39, 39>>,
              <<"s2", Today - 30, Today>>}

\* the same for the functions whose dates are optional
OptionalArgs == DatedArgs \cup {<<"s1", NoDate, NoDate>>}

StoreArgs == {"s1", "s2"}

\* The records that are inserted while the whole Aggregation Engine is called.
GeneralFields(t) ==
  CASE t = "Visitors" ->
         {VisitorBase, Without(VisitorBase, "Time"),
          [VisitorBase EXCEPT !.Duration = 5, !.Converted = FALSE]}
    [] t = "Purchases" -> {PurchaseBase}
    [] t = "CustomerSegments" -> {SegmentBase}
    [] t = "HeatmapData" -> {HeatmapBase, [HeatmapBase EXCEPT !.X = 12, !.Y = 0 - 1]}

Inserts(fields, limit) ==
  \E t \in DOMAIN fields : \E f \in fields[t] :
    RecordCount(db) < limit /\ CreateRecord(t, f)

Next ==
  \/ Inserts([t \in Tables |-> GeneralFields(t)], MaxRecords)
  \/ \E a \in OptionalArgs, seed \in Seeds : KeyMetricsCall(a[1], a[2], a[3], seed)
  \/ \E a \in DatedArgs, seed \in Seeds : TrafficCall(a[1], a[2], a[3], seed)
  \/ \E s \in StoreArgs, seed \in Seeds : SegmentsCall(s, seed)
  \/ \E a \in OptionalArgs, seed \in Seeds : HeatmapCall(a[1], a[2], a[3], seed)
  \/ \E a \in DatedArgs, seed \in Seeds : ConversionCall(a[1], a[2], a[3], seed)
  \/ \E a \in DatedArgs, seed \in Seeds : PeakHoursCall(a[1], a[2], a[3], seed)
  \/ \E a \in DatedArgs, seed \in Seeds : DwellTimeCall(a[1], a[2], a[3], seed)
  \/ \E s \in StoreArgs, seed \in Seeds : RecommendationsCall(s, seed)

Spec == Init /\ [][Next]_vars

\* Key metrics and recommendations over visits and purchases on either side
\* of the three thresholds.
RuleFields(t) ==
  CASE t = "Visitors" ->
         {[VisitorBase EXCEPT !.Duration = d, !.Converted = c] :
            d \in {3, 12}, c \in BOOLEAN}
    [] t = "Purchases" -> {PurchaseBase, [PurchaseBase EXCEPT !.Amount = 10]}
    [] OTHER -> {}

NextRules ==
  \/ Inserts([t \in Tables |-> RuleFields(t)], MaxRuleRecords)
  \/ \E a \in OptionalArgs, seed \in Seeds : KeyMetricsCall(a[1], a[2], a[3], seed)
  \/ \E s \in StoreArgs, seed \in Seeds : RecommendationsCall(s, seed)

SpecRules == Init /\ [][NextRules]_vars

\* Dwell times on the bucket boundaries and visit times in and out of 9..20.
HourFields(t) ==
  CASE t = "Visitors" ->
         {[VisitorBase EXCEPT !.Duration = d] : d \in {3, 5, 15, 60, 61}}
         \cup {[VisitorBase EXCEPT !.Time = T1405],
               [VisitorBase EXCEPT !.Time = T2110],
               Without(VisitorBase, "Duration")}
    [] OTHER -> {}

NextHours ==
  \/ Inserts([t \in Tables |-> HourFields(t)], MaxRecords)
  \/ \E a \in DatedArgs, seed \in Seeds : PeakHoursCall(a[1], a[2], a[3], seed)
  \/ \E a \in DatedArgs, seed \in Seeds : DwellTimeCall(a[1], a[2], a[3], seed)

SpecHours == Init /\ [][NextHours]_vars

\* Density cells in and out of the grid, of two dates and two stores.
HeatFields(t) ==
  CASE t = "HeatmapData" ->
         {HeatmapBase,
          [HeatmapBase EXCEPT !.Density = 40],
          [HeatmapBase EXCEPT !.X = 12, !.Y = 0 - 1],
          [HeatmapBase EXCEPT !.Date = 39, !.X = 0 - 2, !.Y = 10],
          [HeatmapBase EXCEPT !.StoreID = "s2"],
          Without(HeatmapBase, "Density")}
    [] OTHER -> {}

NextHeat ==
  \/ Inserts([t \in Tables |-> HeatFields(t)], MaxRecords)
  \/ \E a \in OptionalArgs, seed \in Seeds : HeatmapCall(a[1], a[2], a[3], seed)

SpecHeat == Init /\ [][NextHeat]_vars

\* The table readers of the Data Access Layer over a Record Source that is
\* written through the pass-through operations.
DalFields(t) ==
  CASE t = "Visitors" -> {VisitorBase, Without(VisitorBase, "Converted")}
    [] t = "Purchases" -> {PurchaseBase, Without(PurchaseBase, "Amount")}
    [] t = "CustomerSegments" ->
         {SegmentBase, [SegmentBase EXCEPT !.StoreID = "s2"],
          Without(SegmentBase, "AvgSpend")}
    [] OTHER -> {}

\* every combination of a present or absent store_id, start_date and end_date
ReaderArgs ==
  OptionalArgs \cup ({"s1", NoStore} \X {NoDate, 39} \X {NoDate, 38})

NextDal ==
  \/ Inserts([t \in Tables |-> DalFields(t)], MaxRecords)
  \/ \E t \in Tables : \E i \in 1..MaxRecords : \E f \in DalFields(t) :
       UpdateRecord(t, i, f)
  \/ \E t \in Tables : \E i \in 1..MaxRecords : DeleteRecord(t, i)
  \/ \E a \in ReaderArgs : VisitorsDataCall(a[1], a[2], a[3])
  \/ \E a \in ReaderArgs : PurchasesDataCall(a[1], a[2], a[3])
  \/ \E s \in StoreArgs \cup {NoStore} : SegmentsDataCall(s)

SpecDal == Init /\ [][NextDal]_vars

\* The date windows: visits inside and outside the trailing 30 days, and
\* get_key_metrics with each of its dates present or absent.
WindowFields(t) ==
  CASE t = "Visitors" -> {VisitorBase, [VisitorBase EXCEPT !.Date = 5]}
    [] t = "Purchases" -> {PurchaseBase}
    [] t = "CustomerSegments" -> {SegmentBase}
    [] t = "HeatmapData" -> {HeatmapBase}

WindowArgs ==
  {<<"s1", NoDate, NoDate>>, <<"s1", NoDate, 39>>, <<"s1", 3, NoDate>>,
   <<"s1", 3, 39>>, <<"s2", NoDate, NoDate>>}

NextWindow ==
  \/ Inserts([t \in Tables |-> WindowFields(t)], MaxRecords)
  \/ \E a \in WindowArgs, seed \in Seeds : KeyMetricsCall(a[1], a[2], a[3], seed)
  \/ \E a \in DatedArgs, seed \in Seeds : TrafficCall(a[1], a[2], a[3], seed)
  \/ \E s \in StoreArgs, seed \in Seeds : SegmentsCall(s, seed)
  \/ \E a \in OptionalArgs, seed \in Seeds : HeatmapCall(a[1], a[2], a[3], seed)
  \/ \E a \in DatedArgs, seed \in Seeds : ConversionCall(a[1], a[2], a[3], seed)
  \/ \E a \in DatedArgs, seed \in Seeds : PeakHoursCall(a[1], a[2], a[3], seed)
  \/ \E a \in DatedArgs, seed \in Seeds : DwellTimeCall(a[1], a[2], a[3], seed)

SpecWindow == Init /\ [][NextWindow]_vars

\* The visitor-based functions called between inserts, updates and deletes:
\* an update moves a record to the other store.
CoreFields(t) ==
  CASE t = "Visitors" ->
         {VisitorBase, [VisitorBase EXCEPT !.Duration = 3, !.Converted = FALSE]}
    [] t = "Purchases" -> {PurchaseBase}
    [] OTHER -> {}

CoreArgs == {<<"s1", Today - 30, Today>>, <<"s2", Today - 30, Today>>}

NextCore ==
  \/ Inserts([t \in Tables |-> CoreFields(t)], MaxRecords)
  \/ \E t \in Tables : \E i \in 1..MaxRecords :
       UpdateRecord(t, i, [StoreID |-> "s2"])
  \/ \E t \in Tables : \E i \in 1..MaxRecords : DeleteRecord(t, i)
  \/ \E a \in CoreArgs, seed \in Seeds : KeyMetricsCall(a[1], a[2], a[3], seed)
  \/ \E a \in CoreArgs, seed \in Seeds : TrafficCall(a[1], a[2], a[3], seed)
  \/ \E a \in CoreArgs, seed \in Seeds : ConversionCall(a[1], a[2], a[3], seed)
  \/ \E a \in CoreArgs, seed \in Seeds : PeakHoursCall(a[1], a[2], a[3], seed)
  \/ \E a \in CoreArgs, seed \in Seeds : DwellTimeCall(a[1], a[2], a[3], seed)

SpecCore == Init /\ [][NextCore]_vars

\* The traffic time series: visits on several dates inside the range, outside
\* it and without a Date, and ranges that hold a weekend, a single day or no
\* day at all.
TrafficFields(t) ==
  CASE t = "Visitors" ->
         {VisitorBase, [VisitorBase EXCEPT !.Date = 36],
          [VisitorBase EXCEPT !.Date = 5], Without(VisitorBase, "Date")}
    [] OTHER -> {}

TrafficArgs ==
  {<<"s1", 33, 40>>, <<"s1", 36, 36>>, <<"s1", 39, 38>>, <<"s2", 33, 40>>}

\* states of the random generator that put the jitter at the low end, inside
\* and at the high end of [0.8, 1.2)
TrafficSeeds == {0, 57, 399}

NextTraffic ==
  \/ Inserts([t \in Tables |-> TrafficFields(t)], MaxRecords)
  \/ \E a \in TrafficArgs, seed \in TrafficSeeds :
       TrafficCall(a[1], a[2], a[3], seed)

SpecTraffic == Init /\ [][NextTraffic]_vars

\* The conversion funnel: visits of exactly five and of more than five
\* minutes, converted or not, and purchases of the same and of different
\* visitors, up to three records so that a visit and a repeated purchase fit.
FunnelFields(t) ==
  CASE t = "Visitors" ->
         {VisitorBase,
          [VisitorBase EXCEPT !.Duration = 5, !.Converted = FALSE],
          [VisitorBase EXCEPT !.Duration = 6, !.Converted = FALSE,
                              !.VisitorID = "V2"]}
    [] t = "Purchases" ->
         {PurchaseBase, [PurchaseBase EXCEPT !.VisitorID = "V2"],
          Without(PurchaseBase, "VisitorID")}
    [] OTHER -> {}

\* states of the random generator that put every share of the synthetic
\* funnel at its low end, inside its interval and at its high end
FunnelSeeds == {0, 57, 199}

NextFunnel ==
  \/ Inserts([t \in Tables |-> FunnelFields(t)], MaxRuleRecords)
  \/ \E a \in CoreArgs, seed \in FunnelSeeds :
       ConversionCall(a[1], a[2], a[3], seed)

SpecFunnel == Init /\ [][NextFunnel]_vars

\* The customer segments: records of either store, with and without the
\* optional AvgSpend, read through the Aggregation Engine and directly.
SegmentFields(t) ==
  CASE t = "CustomerSegments" ->
         {SegmentBase, [SegmentBase EXCEPT !.StoreID = "s2"],
          [SegmentBase EXCEPT !.Segment = "Loyal", !.Count = 12],
          Without(SegmentBase, "AvgSpend")}
    [] OTHER -> {}

NextSegments ==
  \/ Inserts([t \in Tables |-> SegmentFields(t)], MaxRuleRecords)
  \/ \E s \in StoreArgs, seed \in Seeds : SegmentsCall(s, seed)
  \/ \E s \in StoreArgs : SegmentsDataCall(s)

SpecSegments == Init /\ [][NextSegments]_vars

\* The mock data generator: run for a store that exists and for one that
\* does not, over no day, one day and two days, on a Record Source that is
\* empty or already holds records.
MockFields(t) ==
  CASE t = "Visitors" -> {VisitorBase}
    [] t = "Purchases" -> {PurchaseBase}
    [] t = "CustomerSegments" -> {SegmentBase}
    [] OTHER -> {}

MockDays == {0, 1, 2}

NextMock ==
  \/ Inserts([t \in Tables |-> MockFields(t)], MaxRecords)
  \/ \E s \in StoreArgs, days \in MockDays, seed \in Seeds :
       GenerateMockDataCall(s, days, seed)

SpecMock == Init /\ [][NextMock]_vars

\* ===================================================================== claims
AggregationFns ==
  {"get_key_metrics", "get_traffic_data", "get_customer_segments",
   "get_heatmap_data", "get_conversion_data", "get_peak_hours",
   "get_dwell_time_distribution"}

EmptyDb == [t \in DOMAIN db |-> IF t = "Stores" THEN db[t] ELSE <<>>]

\* the records of a table that belong to a store and a date range, read off
\* the Record Source itself
Matching(table_name, store_id, lo, hi) ==
  SelectSeq(db[table_name], LAMBDA r :
    /\ r.fields.StoreID = store_id
    /\ lo = NoDate \/ r.fields.Date >= lo
    /\ hi = NoDate \/ r.fields.Date <= hi)

\* the records a call of the Aggregation Engine works on
UnderlyingRecords(c) ==
  CASE c.fn = "get_key_metrics" ->
         IF c.start_date = NoDate
         THEN Matching("Visitors", c.store_id, Today - 30, Today)
         ELSE Matching("Visitors", c.store_id, c.start_date,
                       IF c.end_date = NoDate THEN Today ELSE c.end_date)
    [] c.fn = "get_customer_segments" ->
         Matching("CustomerSegments", c.store_id, NoDate, NoDate)
    [] c.fn = "get_heatmap_data" ->
         LET date == IF c.end_date = NoDate THEN Today ELSE c.end_date
         IN Matching("HeatmapData", c.store_id, date, date)
    [] OTHER -> Matching("Visitors", c.store_id, c.start_date, c.end_date)

\* the purchases get_key_metrics works on
KeyMetricsPurchases(c) ==
  IF c.start_date = NoDate
  THEN Matching("Purchases", c.store_id, Today - 30, Today)
  ELSE Matching("Purchases", c.store_id, c.start_date,
                IF c.end_date = NoDate THEN Today ELSE c.end_date)

\* the call c made on Record Source content d
Invoke(c, d, seed) ==
  CASE c.fn = "get_key_metrics" ->
         get_key_metrics(d, c.store_id, c.start_date, c.end_date, seed)
    [] c.fn = "get_traffic_data" ->
         get_traffic_data(d, c.store_id, c.start_date, c.end_date, seed)
    [] c.fn = "get_customer_segments" -> get_customer_segments(d, c.store_id, seed)
    [] c.fn = "get_heatmap_data" ->
         get_heatmap_data(d, c.store_id, c.start_date, c.end_date, seed)
    [] c.fn = "get_conversion_data" ->
         get_conversion_data(d, c.store_id, c.start_date, c.end_date, seed)
    [] c.fn = "get_peak_hours" ->
         get_peak_hours(d, c.store_id, c.start_date, c.end_date, seed)
    [] c.fn = "get_dwell_time_distribution" ->
         get_dwell_time_distribution(d, c.store_id, c.start_date, c.end_date, seed)

\* the column names of a DataFrame, the keys of a dict
Schema(r) == IF r.kind = "DataFrame" THEN r.value.columns ELSE DOMAIN r.value

FieldOr(r, k, dflt) == IF k \in DOMAIN r.fields THEN r.fields[k] ELSE dflt

NumberWith(records, Test(_)) == Cardinality({i \in 1..Len(records) : Test(records[i])})

\* C1: every Aggregation Engine function returns, on a non-empty table, a
\* result with the column names / keys of the result it returns on the empty
\* table.
C1_SchemaAsOnEmptyTable ==
  (call.fn \in AggregationFns /\ result.kind # "raise")
    => Schema(result) = Schema(Invoke(call, EmptyDb, 0))

\* C2: on a non-empty visitor table get_key_metrics returns the row count as
\* foot_traffic, 100 * converted rows / row count as conversion_rate and the
\* mean purchase amount as avg_purchase; 25 converted rows out of 100 give
\* exactly 25.
HundredVisitors ==
  [EmptyDb EXCEPT !["Visitors"] =
     [i \in 1..100 |->
        [id |-> i, fields |-> [VisitorBase EXCEPT !.Converted = (i <= 25)]]]]

C2_KeyMetricsOfRealData ==
  /\ get_key_metrics(HundredVisitors, "s1", NoDate, NoDate, 0).value.conversion_rate
       = [n |-> 25, d |-> 1]
  /\ (call.fn = "get_key_metrics" /\ UnderlyingRecords(call) # <<>>) =>
       LET visits == UnderlyingRecords(call)
           purchases == KeyMetricsPurchases(call)
           converted == NumberWith(visits, LAMBDA r : FieldOr(r, "Converted", FALSE))
           amounts == [i \in 1..Len(purchases) |-> FieldOr(purchases[i], "Amount", 0)]
           m == result.value
       IN /\ m.foot_traffic = Len(visits)
          /\ m.conversion_rate.n * Len(visits) = 100 * converted * m.conversion_rate.d
          /\ purchases # <<>> =>
               m.avg_purchase.n * Len(purchases) = SumSeq(amounts) * m.avg_purchase.d

C2_Witness ==
  /\ call.fn = "get_key_metrics"
  /\ Len(UnderlyingRecords(call)) = 2
  /\ KeyMetricsPurchases(call) # <<>>
  /\ result.value.foot_traffic = 2
  /\ result.value.conversion_rate = [n |-> 50, d |-> 1]

\* C3: on a non-empty visitor table a visit of exactly 5 minutes is counted
\* in '5-15 min' and not in '< 5 min', and a visit of exactly 60 minutes is
\* counted in '30-60 min' and not in '> 60 min'.
DwellCount(label) ==
  LET hit == SelectSeq(result.value.rows,
                       LAMBDA r : r.duration_category = label)
  IN IF hit = <<>> THEN 0 ELSE hit[1].count

C3_BoundaryBuckets ==
  (call.fn = "get_dwell_time_distribution" /\ UnderlyingRecords(call) # <<>>) =>
    LET visits == UnderlyingRecords(call)
        n5 == NumberWith(visits, LAMBDA r : FieldOr(r, "Duration", 0) = 5)
        n60 == NumberWith(visits, LAMBDA r : FieldOr(r, "Duration", 0) = 60)
    IN /\ DwellCount("5-15 min") >= n5
       /\ DwellCount("< 5 min") <= Len(visits) - n5
       /\ DwellCount("30-60 min") >= n60
       /\ DwellCount("> 60 min") <= Len(visits) - n60

\* C4: on an empty visitor table get_peak_hours returns exactly 12 rows, the
\* hours 9, 10, ..., 20 in ascending order.
C4_PeakHoursOfEmptyTable ==
  (call.fn = "get_peak_hours" /\ UnderlyingRecords(call) = <<>>) =>
    /\ result.kind = "DataFrame"
    /\ Len(result.value.rows) = 12
    /\ \A i \in 1..Len(result.value.rows) : result.value.rows[i].hour = 8 + i

C4_Witness ==
  /\ call.fn = "get_peak_hours"
  /\ UnderlyingRecords(call) = <<>>
  /\ db["Visitors"] # <<>>
  /\ result.kind = "DataFrame"
  /\ result.value.rows[12].hour = 20

\* C5: get_heatmap_data always returns a density matrix of 10 rows by 10
\* columns, and in the fallback (no matching record) every cell is >= 0.
C5_HeatmapIsTenByTen ==
  call.fn = "get_heatmap_data" =>
    LET density == result.value.density IN
      /\ Len(density) = 10
      /\ \A y \in 1..Len(density) : Len(density[y]) = 10
      /\ UnderlyingRecords(call) = <<>> =>
           \A y \in 1..Len(density) : \A x \in 1..Len(density[y]) :
             density[y][x] >= 0

C5_Witness ==
  /\ call.fn = "get_heatmap_data"
  /\ db["HeatmapData"] # <<>>
  /\ UnderlyingRecords(call) = <<>>
  /\ \E y \in 3..4 : \E x \in 3..4 : result.value.density[y][x] > 100

\* C6: with real data (visitors and purchases of the last 30 days both
\* non-empty) avg_dwell_time < 10 forces an 'engagement' item, conversion_rate
\* < 20 a 'conversion' item and avg_purchase < 50 an 'upsell' item.
RecentVisits == Matching("Visitors", call.store_id, Today - 30, Today)
RecentPurchases == Matching("Purchases", call.store_id, Today - 30, Today)

LowDwell ==
  SumSeq([i \in 1..Len(RecentVisits) |-> FieldOr(RecentVisits[i], "Duration", 0)])
    < 10 * Len(RecentVisits)
LowConversion ==
  100 * NumberWith(RecentVisits, LAMBDA r : FieldOr(r, "Converted", FALSE))
    < 20 * Len(RecentVisits)
LowPurchase ==
  SumSeq([i \in 1..Len(RecentPurchases) |-> FieldOr(RecentPurchases[i], "Amount", 0)])
    < 50 * Len(RecentPurchases)

CategoriesReturned == {result.value[i].category : i \in 1..Len(result.value)}

C6_RulesForceCategories ==
  (call.fn = "get_recommendations" /\ RecentVisits # <<>> /\ RecentPurchases # <<>>) =>
    /\ LowDwell => "engagement" \in CategoriesReturned
    /\ LowConversion => "conversion" \in CategoriesReturned
    /\ LowPurchase => "upsell" \in CategoriesReturned

C6_Witness ==
  /\ call.fn = "get_recommendations"
  /\ RecentVisits # <<>> /\ RecentPurchases # <<>>
  /\ LowDwell /\ LowConversion /\ LowPurchase
  /\ {"engagement", "conversion", "upsell"} \subseteq CategoriesReturned

\* C7: the list get_recommendations returns has the length of the drawn
\* target count, which lies between 3 and 5, with and without real data.
C7_LengthIsTargetCount ==
  [][\A s \in StoreArgs : \A seed \in Seeds :
       RecommendationsCall(s, seed) =>
         /\ Len(result'.value) = RandInt(seed, 0, 3, 5)
         /\ Len(result'.value) \in 3..5]_vars

C7_Witness ==
  /\ call.fn = "get_recommendations"
  /\ RecentVisits # <<>> /\ RecentPurchases # <<>>
  /\ ~LowDwell /\ ~LowConversion /\ ~LowPurchase
  /\ Len(result.value) = 5

\* C8: a call of the Aggregation Engine repeated with the same arguments on an
\* unchanged Record Source returns the same result when it works on real data.
C8_RealDataIdempotent ==
  [][(call' = call /\ call.fn \in AggregationFns /\ UnderlyingRecords(call) # <<>>)
       => result' = result]_vars

C8_Witness ==
  /\ call.fn = "get_conversion_data"
  /\ Len(UnderlyingRecords(call)) = 2
  /\ db["Purchases"] = <<>>
  /\ result.value.rows[1].count = 2

\* C9: no Aggregation Engine function raises, whatever fields the records of
\* the Record Source lack.
C9_NeverRaises == call.fn \in AggregationFns => result.kind # "raise"

PresentClauses(c) ==
  SelectSeq(<<[field |-> "StoreID", op |-> "=", value |-> c.store_id,
               present |-> c.store_id # NoStore],
              [field |-> "Date", op |-> ">=", value |-> c.start_date,
               present |-> c.start_date # NoDate],
              [field |-> "Date", op |-> "<=", value |-> c.end_date,
               present |-> c.end_date # NoDate]>>,
            LAMBDA x : x.present)

C11_FilterOfPresentClauses ==
  call.fn \in {"get_visitors_data", "get_purchases_data"} =>
    LET wanted == PresentClauses(call)
        formula == sent[1].formula
    IN /\ Len(sent) = 1
       /\ sent[1].op = "get_all"
       /\ sent[1].table = IF call.fn = "get_visitors_data" THEN "Visitors"
                          ELSE "Purchases"
       /\ wanted = <<>> => formula.fn = None
       /\ wanted # <<>> =>
            /\ formula.fn = "AND"
            /\ Len(formula.parts) = Len(wanted)
            /\ \A i \in 1..Len(wanted) :
                 /\ formula.parts[i].field = wanted[i].field
                 /\ formula.parts[i].op = wanted[i].op
                 /\ formula.parts[i].value = wanted[i].value

C11_Witness ==
  /\ call.fn = "get_purchases_data"
  /\ call.store_id = NoStore /\ call.start_date = 39 /\ call.end_date = NoDate
  /\ sent[1].formula = [fn |-> "AND", parts |-> <<Clause("Date", ">=", 39)>>]
  /\ db["Purchases"] # <<>>
  /\ result.value.rows = <<>>

\* C12: a call of the Aggregation Engine queries the Record Source for the
\* window [today - 30, today] when start_date is absent, [start_date, today]
\* when only end_date is absent, and [start_date, end_date] otherwise.
ClaimedWindow(c) ==
  IF c.start_date = NoDate THEN <<Today - 30, Today>>
  ELSE IF c.end_date = NoDate THEN <<c.start_date, Today>>
  ELSE <<c.start_date, c.end_date>>

\* the values the clauses "{Date} op '...'" of a request compare the date with
DateBounds(request, op) ==
  {request.formula.parts[i].value :
     i \in {j \in 1..Len(request.formula.parts) :
              /\ request.formula.parts[j].field = "Date"
              /\ request.formula.parts[j].op = op}}

QueriesWindow(request, window) ==
  /\ DateBounds(request, ">=") = {window[1]}
  /\ DateBounds(request, "<=") = {window[2]}
  /\ DateBounds(request, "=") = {}

C12_DefaultWindow ==
  call.fn \in AggregationFns =>
    \A i \in 1..Len(sent) : QueriesWindow(sent[i], ClaimedWindow(call))

\* C12 as amended: get_key_metrics queries that window; get_traffic_data,
\* get_conversion_data, get_peak_hours and get_dwell_time_distribution query
\* the two dates they are given; get_heatmap_data queries the single day
\* end_date, or today when end_date is absent; get_customer_segments queries
\* no date.
C12_WindowOfEachFunction ==
  /\ call.fn = "get_key_metrics" =>
       /\ Len(sent) = 2
       /\ \A i \in 1..Len(sent) : QueriesWindow(sent[i], ClaimedWindow(call))
  /\ call.fn \in {"get_traffic_data", "get_conversion_data", "get_peak_hours",
                  "get_dwell_time_distribution"} =>
       /\ sent # <<>>
       /\ \A i \in 1..Len(sent) :
            QueriesWindow(sent[i], <<call.start_date, call.end_date>>)
  /\ call.fn = "get_heatmap_data" =>
       /\ Len(sent) = 1
       /\ DateBounds(sent[1], "=") =
            {IF call.end_date = NoDate THEN Today ELSE call.end_date}
       /\ DateBounds(sent[1], ">=") = {} /\ DateBounds(sent[1], "<=") = {}
  /\ call.fn = "get_customer_segments" =>
       /\ Len(sent) = 1
       /\ \A op \in {"=", ">=", "<="} : DateBounds(sent[1], op) = {}

C12_Witness ==
  /\ call = Args("get_key_metrics", "s1", NoDate, 39)
  /\ \E i, j \in 1..Len(db["Visitors"]) :
       /\ db["Visitors"][i].fields.Date = 5
       /\ db["Visitors"][j].fields.Date = 38
  /\ Len(db["Visitors"]) = 2
  /\ DateBounds(sent[1], "<=") = {Today}
  /\ result.value.foot_traffic = 1

\* C13: get_recommendations applies the threshold rules exactly when the
\* visitors and the purchases of the trailing 30 days are both non-empty;
\* otherwise the tables' content plays no part and the output is the target
\* count of catalog items drawn without replacement: no title appears twice.
RealData == RecentVisits # <<>> /\ RecentPurchases # <<>>

TitlesReturned == {result.value[i].title : i \in 1..Len(result.value)}

C13_RulesOnlyOnRealData ==
  call.fn = "get_recommendations" =>
    /\ RealData =>
         /\ LowDwell => "engagement" \in CategoriesReturned
         /\ LowConversion => "conversion" \in CategoriesReturned
         /\ LowPurchase => "upsell" \in CategoriesReturned
    /\ ~RealData =>
         /\ Len(result.value) \in 3..5
         /\ Cardinality(TitlesReturned) = Len(result.value)
         /\ TitlesReturned \subseteq {Templates[i][1] : i \in 1..16}
         /\ \E seed \in Seeds :
              result = get_recommendations(EmptyDb, call.store_id, seed)

C13_Witness ==
  /\ call.fn = "get_recommendations"
  /\ RecentVisits = <<>>
  /\ RecentPurchases # <<>> /\ LowPurchase
  /\ "upsell" \notin CategoriesReturned
  /\ Cardinality(TitlesReturned) = Len(result.value)

\* C14: a call of the Aggregation Engine or of get_recommendations sends the
\* Record Source nothing but list and get reads and leaves every table as it
\* was.
CoreFns == AggregationFns \cup {"get_recommendations"}

C14_CallsOnlyRead ==
  [][call'.fn \in CoreFns =>
       /\ db' = db
       /\ sent' # <<>>
       /\ \A i \in 1..Len(sent') : sent'[i].op \in {"get_all", "get"}]_vars

C14_Witness ==
  /\ call.fn = "get_recommendations"
  /\ Len(db["Visitors"]) = 1 /\ Len(db["Purchases"]) = 1
  /\ [i \in 1..Len(sent) |-> sent[i].op] = <<"get", "get_all", "get_all">>
  /\ Len(result.value) \in 3..5

\* C15: whatever inserts, updates, deletes and calls came before, the
\* real-data result of a call of the Aggregation Engine is the one the Record
\* Source content of that moment determines: the call fetches anew and its
\* result counts the records that are there now.
RowCounts(column) ==
  SumSeq([i \in 1..Len(result.value.rows) |-> result.value.rows[i][column]])

C15_ResultOfCurrentRecords ==
  (call.fn \in AggregationFns /\ UnderlyingRecords(call) # <<>>) =>
    LET now == Len(UnderlyingRecords(call)) IN
      /\ sent # <<>>
      /\ \A i \in 1..Len(sent) : sent[i].op = "get_all"
      /\ \A seed \in Seeds : result = Invoke(call, db, seed)
      /\ call.fn = "get_key_metrics" => result.value.foot_traffic = now
      /\ call.fn = "get_traffic_data" => RowCounts("visitors") = now
      /\ call.fn = "get_conversion_data" => result.value.rows[1].count = now
      /\ call.fn = "get_peak_hours" => RowCounts("visitors") = now
      /\ call.fn = "get_dwell_time_distribution" => RowCounts("count") = now

C15_Witness ==
  /\ call = Args("get_key_metrics", "s1", Today - 30, Today)
  /\ Len(db["Visitors"]) = 2
  /\ db["Visitors"][1].id = 2 /\ db["Visitors"][1].fields.StoreID = "s1"
  /\ db["Visitors"][2].id = 1 /\ db["Visitors"][2].fields.StoreID = "s2"
  /\ result.value.foot_traffic = 1

\* C16: on a non-empty visitor table every visit of duration >= 0, the 0 of a
\* missing Duration included, is counted in exactly one of the five buckets of
\* get_dwell_time_distribution: the bucket counts sum to the number of visits.
C16_BucketsCountEveryVisit ==
  (call.fn = "get_dwell_time_distribution" /\ UnderlyingRecords(call) # <<>>) =>
    /\ Len(result.value.rows) = 5
    /\ RowCounts("count") = Len(UnderlyingRecords(call))

\* C17: on a non-empty visitor table get_peak_hours returns 12 rows, one per
\* hour 9..20 in order; the row of hour h holds the number of visits whose
\* time string has the integer h before its first ':', 0 when there is none,
\* and a visit of an hour outside 9..20 is counted in no row.
HourOfVisit(r) ==
  CASE r.fields.Time = T0930 -> 9
    [] r.fields.Time = T1405 -> 14
    [] r.fields.Time = T2110 -> 21

C17_PeakHoursCountPerHour ==
  (call.fn = "get_peak_hours" /\ UnderlyingRecords(call) # <<>>) =>
    /\ result.kind = "DataFrame"
    /\ Len(result.value.rows) = 12
    /\ \A i \in 1..12 :
         /\ result.value.rows[i].hour = 8 + i
         /\ result.value.rows[i].visitors =
              NumberWith(UnderlyingRecords(call), LAMBDA r : HourOfVisit(r) = 8 + i)

C17_Witness ==
  /\ call.fn = "get_peak_hours"
  /\ Len(UnderlyingRecords(call)) = 2
  /\ \E i, j \in 1..2 : /\ db["Visitors"][i].fields.Time = T1405
                         /\ db["Visitors"][j].fields.Time = T2110
  /\ result.value.rows[6].visitors = 1
  /\ RowCounts("visitors") = 1

\* C18: when a heatmap record matches, the grid is 0 except where a record
\* writes its Density: a record of coordinates X, Y writes cell
\* [min(max(Y,0),9)][min(max(X,0),9)], so an out-of-range record lands on the
\* border of the grid and no cell outside it is written.
Lower(a, b) == IF a < b THEN a ELSE b
Higher(a, b) == IF a > b THEN a ELSE b

\* the matching records that address cell [y][x] (both counted from 0)
Addressing(x, y) ==
  SelectSeq(UnderlyingRecords(call), LAMBDA r :
    /\ Lower(Higher(FieldOr(r, "X", 0), 0), 9) = x
    /\ Lower(Higher(FieldOr(r, "Y", 0), 0), 9) = y)

C18_RecordsFillClampedCells ==
  (call.fn = "get_heatmap_data" /\ UnderlyingRecords(call) # <<>>) =>
    LET density == result.value.density IN
      /\ Len(density) = 10
      /\ \A y \in 0..9 :
           /\ Len(density[y + 1]) = 10
           /\ \A x \in 0..9 :
                LET writers == Addressing(x, y) IN
                  density[y + 1][x + 1] =
                    IF writers = <<>> THEN 0
                    ELSE FieldOr(writers[Len(writers)], "Density", 0)

C18_Witness ==
  /\ call.fn = "get_heatmap_data"
  /\ Len(UnderlyingRecords(call)) = 1
  /\ UnderlyingRecords(call)[1].fields.X = 12
  /\ UnderlyingRecords(call)[1].fields.Y = 0 - 1
  /\ result.value.density[1][10] = 150
  /\ result.value.density[5][4] = 0

\* C19: in the real-data branch of get_recommendations an item added by the
\* fill step has a category that no item selected before it has, unless every
\* category of the catalog is already used.
RulesFired ==
  (IF LowDwell THEN 1 ELSE 0) + (IF LowConversion THEN 1 ELSE 0)
    + (IF LowPurchase THEN 1 ELSE 0)

CatalogCategories == {Templates[i][2] : i \in 1..16}

C19_FillAvoidsUsedCategories ==
  (call.fn = "get_recommendations" /\ RealData) =>
    \A i \in (RulesFired + 1)..Len(result.value) :
      LET used == {result.value[j].category : j \in 1..(i - 1)} IN
        used # CatalogCategories => result.value[i].category \notin used

C19_Witness ==
  /\ call.fn = "get_recommendations"
  /\ RealData
  /\ LowDwell /\ ~LowConversion /\ ~LowPurchase
  /\ Len(result.value) = 5
  /\ result.value[1].category = "engagement"
  /\ Cardinality(CategoriesReturned) = 5

\* C20: get_key_metrics takes its fallback exactly when no visit matches, and
\* then foot_traffic is an integer in [500, 1500], conversion_rate is in
\* [15, 30] and avg_purchase is in [40, 80], whatever purchases there are; so
\* foot_traffic = 0 is never returned.
Within(x, lo, hi) == lo * x.d <= x.n /\ x.n <= hi * x.d

C20_FallbackOnNoVisit ==
  call.fn = "get_key_metrics" =>
    LET m == result.value IN
      /\ m.foot_traffic # 0
      /\ UnderlyingRecords(call) # <<>> =>
           m.foot_traffic = Len(UnderlyingRecords(call))
      /\ UnderlyingRecords(call) = <<>> =>
           /\ m.foot_traffic \in 500..1500
           /\ Within(m.conversion_rate, 15, 30)
           /\ Within(m.avg_purchase, 40, 80)

C20_Witness ==
  /\ call.fn = "get_key_metrics"
  /\ UnderlyingRecords(call) = <<>>
  /\ Len(KeyMetricsPurchases(call)) = 1
  /\ KeyMetricsPurchases(call)[1].fields.Amount = 120
  /\ Within(result.value.avg_purchase, 40, 80)
  /\ result.value.foot_traffic >= 500

\* C21: on a non-empty visitor table get_traffic_data returns one row per
\* distinct date of the matching visits, the 'visitors' value of a date is the
\* number of visits on it, the values sum to the number of visits, and a date
\* of the requested range without a visit has no row.
VisitsOf(c) ==
  SelectSeq(db["Visitors"], LAMBDA r :
    /\ r.fields.StoreID = c.store_id
    /\ FieldOr(r, "Date", NoDate) >= c.start_date
    /\ FieldOr(r, "Date", NoDate) <= c.end_date)

VisitDates(c) == {VisitsOf(c)[i].fields.Date : i \in 1..Len(VisitsOf(c))}

C21_OneRowPerVisitedDate ==
  (call.fn = "get_traffic_data" /\ VisitsOf(call) # <<>>) =>
    LET rows == result.value.rows IN
      /\ result.kind = "DataFrame"
      /\ Len(rows) = Cardinality(VisitDates(call))
      /\ {rows[i].date : i \in 1..Len(rows)} = VisitDates(call)
      /\ \A i \in 1..Len(rows) :
           rows[i].visitors =
             NumberWith(VisitsOf(call), LAMBDA r : r.fields.Date = rows[i].date)
      /\ RowCounts("visitors") = Len(VisitsOf(call))
      /\ \A date \in call.start_date..call.end_date :
           date \notin VisitDates(call) =>
             \A i \in 1..Len(rows) : rows[i].date # date

C21_Witness ==
  /\ call = Args("get_traffic_data", "s1", 33, 40)
  /\ Len(VisitsOf(call)) = 2
  /\ result.value.rows = <<[date |-> 36, visitors |-> 1],
                           [date |-> 38, visitors |-> 1]>>

\* C22: on an empty visitor table get_traffic_data returns one row for each
\* calendar date from start_date to end_date, ascending, and none when
\* start_date is after end_date; each count is floor(50 * weekend_factor *
\* jitter) for a jitter in [0.8, 1.2], so within 40..60 from Monday to Friday
\* and within 60..90 on Saturday and Sunday.
C22_SyntheticSeriesOfTheRange ==
  (call.fn = "get_traffic_data" /\ VisitsOf(call) = <<>>) =>
    LET rows == result.value.rows
        days == IF call.start_date > call.end_date THEN 0
                ELSE call.end_date - call.start_date + 1
    IN /\ result.kind = "DataFrame"
       /\ Len(rows) = days
       /\ \A i \in 1..Len(rows) :
            LET weekend == rows[i].date % 7 \in {5, 6} IN
              /\ rows[i].date = call.start_date + i - 1
              /\ \E jitter \in 800..1200 :
                   rows[i].visitors =
                     ((IF weekend THEN 3 ELSE 2) * 25 * jitter) \div 1000
              /\ IF weekend THEN rows[i].visitors \in 60..90
                 ELSE rows[i].visitors \in 40..60

C22_Witness ==
  /\ call = Args("get_traffic_data", "s2", 33, 40)
  /\ db["Visitors"] # <<>>
  /\ Len(result.value.rows) = 8
  /\ result.value.rows[1].date = 33 /\ result.value.rows[1].visitors > 60
  /\ result.value.rows[2].date = 34 /\ result.value.rows[2].visitors > 60
  /\ result.value.rows[3].date = 35 /\ result.value.rows[3].visitors < 60
  /\ result.value.rows[3].visitors > 40

\* C23: on a non-empty visitor table get_conversion_data returns the four
\* rows Total Visitors, Engaged, Converted, Repeat Customers, in that order,
\* counting the visits, the visits of more than 5 minutes (exactly 5 is not
\* engaged), the visits with converted = true, and the distinct visitor_id
\* values found in more than one purchase row (0 without purchases).
StageCounts == [i \in 1..Len(result.value.rows) |-> result.value.rows[i].count]

C23_FunnelOfRealData ==
  (call.fn = "get_conversion_data" /\ VisitsOf(call) # <<>>) =>
    LET visits == VisitsOf(call)
        purchases ==
          Matching("Purchases", call.store_id, call.start_date, call.end_date)
        buyers == {FieldOr(purchases[i], "VisitorID", "") :
                     i \in 1..Len(purchases)}
        bought(v) ==
          NumberWith(purchases, LAMBDA p : FieldOr(p, "VisitorID", "") = v)
    IN /\ Column(result.value.rows, "stage") =
            <<"Total Visitors", "Engaged", "Converted", "Repeat Customers">>
       /\ StageCounts[1] = Len(visits)
       /\ StageCounts[2] =
            NumberWith(visits, LAMBDA r : FieldOr(r, "Duration", 0) >= 6)
       /\ StageCounts[3] =
            NumberWith(visits, LAMBDA r : FieldOr(r, "Converted", FALSE))
       /\ StageCounts[4] = Cardinality({v \in buyers : bought(v) >= 2})
       /\ purchases = <<>> => StageCounts[4] = 0

C23_Witness ==
  /\ call = Args("get_conversion_data", "s1", Today - 30, Today)
  /\ Len(db["Visitors"]) = 1 /\ db["Visitors"][1].fields.Duration = 5
  /\ Len(db["Purchases"]) = 2
  /\ FieldOr(db["Purchases"][1], "VisitorID", "") = "V1"
  /\ FieldOr(db["Purchases"][2], "VisitorID", "") = "V1"
  /\ StageCounts = <<1, 0, 0, 1>>

\* C27: in every result of get_conversion_data the Engaged and the Converted
\* count are at most the Total Visitors count and the four counts are >= 0;
\* on an empty visitor table the counts moreover do not increase down the
\* funnel: Total Visitors >= Engaged >= Converted >= Repeat Customers.
C27_FunnelBounds ==
  call.fn = "get_conversion_data" =>
    /\ Len(StageCounts) = 4
    /\ StageCounts[2] <= StageCounts[1]
    /\ StageCounts[3] <= StageCounts[1]
    /\ \A i \in 1..4 : StageCounts[i] >= 0
    /\ VisitsOf(call) = <<>> =>
         /\ StageCounts[1] >= StageCounts[2]
         /\ StageCounts[2] >= StageCounts[3]
         /\ StageCounts[3] >= StageCounts[4]

C27_Witness ==
  /\ call = Args("get_conversion_data", "s2", Today - 30, Today)
  /\ db["Visitors"] # <<>> /\ db["Purchases"] # <<>>
  /\ VisitsOf(call) = <<>>
  /\ StageCounts[1] > 800
  /\ StageCounts[1] > StageCounts[2] /\ StageCounts[2] > StageCounts[3]
  /\ StageCounts[3] > StageCounts[4] /\ StageCounts[4] > 0

\* C24: AnalyticsProcessor.get_customer_segments returns the segment rows of
\* the store as the Data Access Layer built them when the store has a segment
\* record; when it has none the result is four rows named First-time,
\* Occasional, Regular and Loyal, in that order, with counts within 30..49,
\* 40..59, 20..39 and 10..19.
SegmentsOf(store_id) ==
  SelectSeq(db["CustomerSegments"], LAMBDA r : r.fields.StoreID = store_id)

C24_SegmentsOrFourDefaults ==
  call.fn = "get_customer_segments" =>
    LET records == SegmentsOf(call.store_id)
        rows == result.value.rows
    IN IF records # <<>>
       THEN /\ result = Frame(dal_get_customer_segments(db, call.store_id))
            /\ Len(rows) = Len(records)
            /\ \A i \in 1..Len(rows) :
                 /\ rows[i].id = records[i].id
                 /\ rows[i].store_id = call.store_id
                 /\ rows[i].segment = records[i].fields.Segment
                 /\ rows[i].count = records[i].fields.Count
                 /\ rows[i].avg_spend = FieldOr(records[i], "AvgSpend", 0)
       ELSE /\ Column(rows, "segment") =
                 <<"First-time", "Occasional", "Regular", "Loyal">>
            /\ rows[1].count \in 30..49
            /\ rows[2].count \in 40..59
            /\ rows[3].count \in 20..39
            /\ rows[4].count \in 10..19

C24_Witness ==
  /\ call = Args("get_customer_segments", "s2", NoDate, NoDate)
  /\ Len(SegmentsOf("s1")) = 2
  /\ SegmentsOf("s2") = <<>>
  /\ Column(result.value.rows, "segment") =
       <<"First-time", "Occasional", "Regular", "Loyal">>
  /\ Column(result.value.rows, "count") = <<35, 45, 20, 10>>

\* C25: in the real-data branch of get_recommendations the fill step always
\* finds a category not used yet, the catalog having 6 categories and the
\* output at most 5 items; so the items returned have pairwise distinct
\* categories and pairwise distinct titles.
C25_DistinctCategories ==
  (call.fn = "get_recommendations" /\ RealData) =>
    LET items == result.value IN
      /\ Cardinality(CatalogCategories) = 6
      /\ Len(items) <= 5
      /\ \A i \in 1..Len(items) :
           {items[j].category : j \in 1..(i - 1)} # CatalogCategories
      /\ \A i, j \in 1..Len(items) :
           i # j => /\ items[i].category # items[j].category
                    /\ items[i].title # items[j].title

C25_Witness ==
  /\ call.fn = "get_recommendations"
  /\ RealData
  /\ LowDwell /\ LowConversion /\ LowPurchase
  /\ Len(result.value) = 5
  /\ <<result.value[1].category, result.value[2].category,
       result.value[3].category>> = <<"engagement", "conversion", "upsell">>
  /\ {result.value[4].category, result.value[5].category} \subseteq
       {"loyalty", "marketing", "operations"}
  /\ result.value[4].category # result.value[5].category

\* C26: a run of generate_mock_data for a store that exists returns True and
\* inserts as many Purchases records as Visitors records with Converted =
\* true; each purchase is inserted immediately after its visit and carries that
\* visit's StoreID, Date, Time and VisitorID, and no purchase follows a visit
\* with Converted = false. For a store that does not exist the run returns
\* False and inserts nothing.
WritesSent(requests, table_name) ==
  SelectSeq(requests, LAMBDA q : q.op = "insert" /\ q.table = table_name)

C26_PurchasesFollowConvertedVisits ==
  [][call'.fn = "generate_mock_data" =>
       LET writes == SelectSeq(sent', LAMBDA q : q.op = "insert")
           added(t) == SubSeq(db'[t], Len(db[t]) + 1, Len(db'[t]))
           visits == added("Visitors")
       IN IF GetRecord(db["Stores"], call'.store_id) = <<>>
          THEN /\ result'.value = FALSE
               /\ writes = <<>>
               /\ db' = db
          ELSE /\ result'.value = TRUE
               /\ \A t \in Tables :
                    /\ SubSeq(db'[t], 1, Len(db[t])) = db[t]
                    /\ [i \in 1..Len(added(t)) |-> added(t)[i].fields] =
                         [i \in 1..Len(WritesSent(sent', t)) |->
                            WritesSent(sent', t)[i].fields]
               /\ Len(added("Purchases")) =
                    NumberWith(visits, LAMBDA r : r.fields.Converted)
               /\ \A i \in 1..Len(writes) :
                    writes[i].table = "Purchases" =>
                      /\ i > 1
                      /\ writes[i - 1].table = "Visitors"
                      /\ writes[i - 1].fields.Converted
                      /\ writes[i].fields.StoreID = call'.store_id
                      /\ \A f \in {"StoreID", "Date", "Time", "VisitorID"} :
                           writes[i].fields[f] = writes[i - 1].fields[f]
               /\ \A i \in 1..Len(writes) :
                    (writes[i].table = "Visitors" /\ ~writes[i].fields.Converted)
                      => (i = Len(writes) \/ writes[i + 1].table # "Purchases")
    ]_vars

C26_Witness ==
  /\ call = [fn |-> "generate_mock_data", store_id |-> "s1", days |-> 2]
  /\ result.value = TRUE
  /\ db["Purchases"][1].fields = PurchaseBase
  /\ Len(WritesSent(sent, "Visitors")) >= 40
  /\ Len(WritesSent(sent, "Purchases")) >= 2
  /\ Len(db["Purchases"]) = 1 + Len(WritesSent(sent, "Purchases"))
  /\ Len(WritesSent(sent, "Purchases")) < Len(WritesSent(sent, "Visitors"))

\* C28: get_key_metrics treats the two tables differently. With visits and
\* no purchase it returns the real foot_traffic and conversion_rate and
\* avg_purchase = 0; with purchases and no visit it returns what it returns
\* for a store without any record: synthetic foot_traffic and conversion_rate
\* and a synthetic avg_purchase in [40, 80], whatever the purchase amounts.
C28_VisitsDecideTheBranch ==
  call.fn = "get_key_metrics" =>
    LET visits == UnderlyingRecords(call)
        purchases == KeyMetricsPurchases(call)
        converted == NumberWith(visits, LAMBDA r : FieldOr(r, "Converted", FALSE))
        m == result.value
    IN /\ (visits # <<>> /\ purchases = <<>>) =>
            /\ m.foot_traffic = Len(visits)
            /\ m.conversion_rate = Rat(100 * converted, Len(visits))
            /\ m.avg_purchase = Rat(0, 1)
       /\ (visits = <<>> /\ purchases # <<>>) =>
            /\ \E seed \in Seeds : result = Invoke(call, EmptyDb, seed)
            /\ m.foot_traffic \in 500..1499
            /\ Within(m.conversion_rate, 15, 30)
            /\ Within(m.avg_purchase, 40, 80)

C28_Witness ==
  /\ call.fn = "get_key_metrics"
  /\ Len(UnderlyingRecords(call)) = 2
  /\ db["Purchases"] = <<>>
  /\ result.value =
       [foot_traffic |-> 2, conversion_rate |-> Rat(50, 1), avg_purchase |-> Rat(0, 1)]

====
